---- MODULE Spec2Model ----
(***************************************************************************)
(* Changelog fragments: the aggregate script (aggregate-changelog.js, the  *)
(* second program of create-changelog-fragment.js) and the release script  *)
(* (release.sh), modelled over a file system that holds CHANGELOG.md, the  *)
(* .changeset directory and the version of package.json.                   *)
(*                                                                         *)
(* A text file is a sequence of newline-terminated lines.  A line is a     *)
(* record [k, s, v]: k is the shape of the line (what the regular          *)
(* expressions of the scripts can tell apart), s its text payload and v    *)
(* its numbers (a version, an issue number).                               *)
(***************************************************************************)
EXTENDS Integers, Sequences, FiniteSets, TLC

\* ------------------------------------------------------------------ bounds

\* Operations (aggregate or release runs) started in one behaviour.
MaxRuns == 2

\* ------------------------------------------------------------------- lines

Line(k, s, v) == [k |-> k, s |-> s, v |-> v]

Blank == Line("blank", "", <<>>)                 \* an empty line
TitleLine == Line("title", "# Changelog", <<>>)
Prose(s) == Line("text", s, <<>>)                \* "- some hand-written text"
UnreleasedHeader == Line("unrel", "## [Unreleased]", <<>>)
VersionHeader(ver) == Line("ver", "## [V] - DATE", ver)
SubHeader(h) == Line("sub", h, <<>>)             \* "### Added"
EntryLine(title, issue) == Line("entry", title, issue)  \* "- **title** (#issue)"
BodyLine(s) == Line("body", s, <<>>)             \* "  " followed by a body line
UnreleasedLink(ver) == Line("ulink", "[Unreleased]: /compare/vV...HEAD", ver)
VersionLink(ver, prev) == Line("vlink", "[V]: /compare/vP...vV", ver \o prev)

\* /## \[Unreleased\]\s*\n/ (aggregate) and /^## \[Unreleased\]/ (awk, grep, sed)
IsUnreleasedHeader(l) == l.k = "unrel"
\* /^## \[/ (awk), /\n## \[/ (aggregate), /## \[/ (sed)
IsSectionHeader(l) == l.k \in {"unrel", "ver"}
\* a line of white space only
IsBlank(l) == l.k = "blank"
\* grep "###"
HasTripleHash(l) == l.k = "sub"
\* /^\[Unreleased\]:/
IsUnreleasedLink(l) == l.k = "ulink"
\* /^\[/
StartsWithBracket(l) == l.k \in {"ulink", "vlink"}

\* ---------------------------------------------------------------- versions

\* A version string: <<M, m, p>> is M.m.p and <<>> is the empty string.

\* Semantic-version ordering of two M.m.p triples.
VersionLess(a, b) ==
    \/ a[1] < b[1]
    \/ a[1] = b[1] /\ a[2] < b[2]
    \/ a[1] = b[1] /\ a[2] = b[2] /\ a[3] < b[3]

\* --------------------------------------------------------------- fragments

\* TYPE_ORDER[t] || 999
TypeOrder(t) ==
    CASE t = "added" -> 1
      [] t = "changed" -> 2
      [] t = "deprecated" -> 3
      [] t = "removed" -> 4
      [] t = "fixed" -> 5
      [] t = "security" -> 6
      [] OTHER -> 999

\* TYPE_HEADERS[t] || t.charAt(0).toUpperCase() + t.slice(1)
TypeHeader(t) ==
    CASE t = "added" -> "Added"
      [] t = "changed" -> "Changed"
      [] t = "deprecated" -> "Deprecated"
      [] t = "removed" -> "Removed"
      [] t = "fixed" -> "Fixed"
      [] t = "security" -> "Security"
      [] t = "perf" -> "Perf"
      [] t = "docs" -> "Docs"
      [] OTHER -> t

\* A fragment file: its name and what its text holds.  delim: the text has
\* the "---" pair with a newline after the closing one.  type, issue, title:
\* <<>> when the key is absent from the metadata block, <<value>> otherwise
\* (the title as the text after "title: "; the issue as the decimal integer
\* written).  body: the lines after the closing delimiter.  pr: the pr key,
\* which a file written by hand does not have.
File(name, delim, type, issue, title, body) ==
    [name |-> name, delim |-> delim, type |-> type, issue |-> issue,
     title |-> title, body |-> body, pr |-> <<>>]

\* `"${title}"`
Quote(t) == "\"" \o t \o "\""

\* The titles the creator of the model is given or makes up.
TitleTexts == {"Add login", " Padded title ", "Padded title", "Change description"}

\* value.replace(/^["']|["']$/g, ''): a quote at the start and one at the end
\* go.  Over the texts of the model, whose only quotes are those Quote puts.
StripQuotes(s) ==
    IF \E t \in TitleTexts : s = Quote(t)
    THEN CHOOSE t \in TitleTexts : s = Quote(t)
    ELSE s

\* String.prototype.trim of a text of one line, over the texts of the model.
TrimText(s) ==
    CASE s = " Padded title " -> "Padded title"
      [] s = "Fixed " -> "Fixed"
      [] OTHER -> s

\* String.prototype.trim on a text given as lines: leading and trailing
\* blank lines go.
RECURSIVE TrimLeft(_)
TrimLeft(ls) ==
    IF ls = <<>> THEN <<>>
    ELSE IF Head(ls) = "" THEN TrimLeft(Tail(ls)) ELSE ls

RECURSIVE TrimRight(_)
TrimRight(ls) ==
    IF ls = <<>> THEN <<>>
    ELSE IF ls[Len(ls)] = "" THEN TrimRight(SubSeq(ls, 1, Len(ls) - 1)) ELSE ls

Trim(ls) == TrimRight(TrimLeft(ls))

\* parseFrontmatter: the fragment it returns for a text with the delimiter
\* pair.  undefined is <<>>; parseInt of an absent key is NaN, also <<>>.
parseFrontmatter(f) ==
    [type |-> f.type,
     issue |-> f.issue,
     title |-> IF f.title = <<>> THEN <<>> ELSE <<TrimText(StripQuotes(f.title[1]))>>,
     body |-> Trim(f.body)]

\* ParseThrows of a parser that accepts every text.
ParseThrowsNever(f) == FALSE

\* parseFrontmatter throws ('missing frontmatter') exactly when the match fails.
ParseThrows(f) == ~f.delim

\* file.endsWith('.md'), file.startsWith('_'), file === 'README.md', over the
\* file names of the model.
EndsWithMd(name) == name # "notes.txt"
StartsWithUnderscore(name) == name = "_template.md"
IsSkipped(name) ==
    ~EndsWithMd(name) \/ StartsWithUnderscore(name) \/ name = "README.md"

\* readFragments without the test that skips files: every file is parsed.
RECURSIVE readFragmentsUnfiltered(_)
readFragmentsUnfiltered(listing) ==
    IF listing = <<>> THEN <<>>
    ELSE LET f == Head(listing)
             rest == readFragmentsUnfiltered(Tail(listing))
         IN IF ParseThrows(f) THEN rest
            ELSE <<[type |-> parseFrontmatter(f).type,
                    issue |-> parseFrontmatter(f).issue,
                    title |-> parseFrontmatter(f).title,
                    body |-> parseFrontmatter(f).body,
                    filename |-> f.name]>> \o rest

\* readFragments, over the directory listing in the order readdirSync gives
\* it: the fragments parsed, each with its filename.
RECURSIVE readFragments(_)
readFragments(listing) ==
    IF listing = <<>> THEN <<>>
    ELSE LET f == Head(listing)
             rest == readFragments(Tail(listing))
         IN IF IsSkipped(f.name) \/ ParseThrows(f) THEN rest
            ELSE <<[type |-> parseFrontmatter(f).type,
                    issue |-> parseFrontmatter(f).issue,
                    title |-> parseFrontmatter(f).title,
                    body |-> parseFrontmatter(f).body,
                    filename |-> f.name]>> \o rest

\* The warnings readFragments prints: the files whose parse threw.
RECURSIVE readWarnings(_)
readWarnings(listing) ==
    IF listing = <<>> THEN <<>>
    ELSE LET f == Head(listing)
             rest == readWarnings(Tail(listing))
         IN IF ~IsSkipped(f.name) /\ ParseThrows(f) THEN <<f.name>> \o rest
            ELSE rest

\* (a, b) => a.issue - b.issue is negative; a difference with NaN is NaN,
\* which sort takes as 0.
IssueLess(a, b) ==
    /\ a.issue # <<>>
    /\ b.issue # <<>>
    /\ a.issue[1] < b.issue[1]

\* Array.prototype.sort is stable: an element goes before the first one it
\* is less than.
RECURSIVE InsertByIssue(_, _)
InsertByIssue(sorted, f) ==
    IF sorted = <<>> THEN <<f>>
    ELSE IF IssueLess(f, Head(sorted)) THEN <<f>> \o sorted
    ELSE <<Head(sorted)>> \o InsertByIssue(Tail(sorted), f)

RECURSIVE SortByIssue(_)
SortByIssue(fs) ==
    IF fs = <<>> THEN <<>>
    ELSE InsertByIssue(SortByIssue(SubSeq(fs, 1, Len(fs) - 1)), fs[Len(fs)])

\* fragment.type || 'changed'
GroupKey(f) == IF f.type = <<>> \/ f.type = <<"">> THEN "changed" ELSE f.type[1]

\* groups[type].push(fragment), creating the group at its first fragment:
\* the groups are kept in the order of their creation (the key order of the
\* object; no type of the model is a string of digits).
RECURSIVE PushToGroup(_, _)
PushToGroup(groups, f) ==
    IF groups = <<>> THEN <<[type |-> GroupKey(f), frags |-> <<f>>]>>
    ELSE IF Head(groups).type = GroupKey(f)
         THEN <<[type |-> GroupKey(f), frags |-> Append(Head(groups).frags, f)]>>
              \o Tail(groups)
         ELSE <<Head(groups)>> \o PushToGroup(Tail(groups), f)

RECURSIVE CollectGroups(_)
CollectGroups(fragments) ==
    IF fragments = <<>> THEN <<>>
    ELSE PushToGroup(CollectGroups(SubSeq(fragments, 1, Len(fragments) - 1)),
                     fragments[Len(fragments)])

\* Names every object inherits from Object.prototype, among the types of the
\* model: groups[type] is then the inherited member, not undefined.
InheritedKeys == {"constructor"}

\* groups[type].push(fragment) throws a TypeError: groups is a plain object
\* ({}), so for a type that names an inherited member !groups[type] is false
\* and groups[type] is no array.
GroupingThrows(fragments) ==
    \E i \in 1..Len(fragments) : GroupKey(fragments[i]) \in InheritedKeys

\* groupFragmentsByType: the groups, each sorted by issue number.
groupFragmentsByType(fragments) ==
    LET gs == CollectGroups(fragments)
    IN [i \in 1..Len(gs) |->
           [type |-> gs[i].type, frags |-> SortByIssue(gs[i].frags)]]

\* Object.keys(groups).sort by TYPE_ORDER, stable.
RECURSIVE InsertByType(_, _)
InsertByType(sorted, g) ==
    IF sorted = <<>> THEN <<g>>
    ELSE IF TypeOrder(g.type) < TypeOrder(Head(sorted).type) THEN <<g>> \o sorted
    ELSE <<Head(sorted)>> \o InsertByType(Tail(sorted), g)

RECURSIVE SortByType(_)
SortByType(gs) ==
    IF gs = <<>> THEN <<>>
    ELSE InsertByType(SortByType(SubSeq(gs, 1, Len(gs) - 1)), gs[Len(gs)])

\* fragment.body.split('\n').filter((line) => line.trim()), each indented.
RECURSIVE BodyLines(_)
BodyLines(body) ==
    IF body = <<>> THEN <<>>
    ELSE IF Head(body) = "" THEN BodyLines(Tail(body))
    ELSE <<BodyLine(Head(body))>> \o BodyLines(Tail(body))

\* `${fragment.title}`: undefined prints as the word.
TitleText(f) == IF f.title = <<>> THEN "undefined" ELSE f.title[1]

\* The elements pushed for the fragments of one group: the entry, its body
\* lines and the empty element after each.
RECURSIVE EntryLines(_)
EntryLines(frags) ==
    IF frags = <<>> THEN <<>>
    ELSE <<EntryLine(TitleText(Head(frags)), Head(frags).issue)>>
         \o BodyLines(Head(frags).body) \o <<Blank>> \o EntryLines(Tail(frags))

\* `### ${header}\n` is one element that joins into the header line and an
\* empty line.
RECURSIVE SectionElements(_)
SectionElements(gs) ==
    IF gs = <<>> THEN <<>>
    ELSE <<SubHeader(TypeHeader(Head(gs).type)), Blank>>
         \o EntryLines(Head(gs).frags) \o SectionElements(Tail(gs))

\* generateChangelogSection: lines.join('\n') as the lines of the text.  The
\* last element pushed is the empty one, so the text ends with the newline
\* of the line before it.
generateChangelogSection(groups) ==
    LET els == SectionElements(SortByType(groups))
    IN IF els = <<>> THEN <<>> ELSE SubSeq(els, 1, Len(els) - 1)

\* ------------------------------------------------------------- the creator

\* CHANGE_TYPES, the values
ChangeTypes == <<"added", "fixed", "changed", "deprecated", "removed", "security">>

\* parseInt(input, 10) over the inputs of the model; <<>> is NaN.
ParseInt(input) ==
    CASE input = "5" -> <<5>>
      [] input = "7" -> <<7>>
      [] input = "0" -> <<0>>
      [] input = "12" -> <<12>>
      [] input = "2" -> <<2>>
      [] OTHER -> <<>>

\* String.prototype.toLowerCase over the texts of the model.
ToLower(s) == IF s = "Fixed" THEN "fixed" ELSE IF s = "Y" THEN "y" ELSE s

\* validateIssueNumber: <<num>>, or <<>> when it throws.
validateIssueNumber(input) ==
    IF ParseInt(input) = <<>> \/ ParseInt(input)[1] <= 0 THEN <<>> ELSE ParseInt(input)

\* validateChangeType: <<type>>, or <<>> when it throws.
validateChangeType(input) ==
    IF \E i \in 1..Len(ChangeTypes) : ChangeTypes[i] = ToLower(TrimText(input))
    THEN <<ToLower(TrimText(input))>>
    ELSE <<>>

\* path.join(CHANGESET_DIR, `${issueNumber}.md`), the name of the file; the
\* name is the same for every issue.
FragmentNameFixed(issue) == "fragment.md"

\* path.join(CHANGESET_DIR, `${issueNumber}.md`), the name of the file.
FragmentName(issue) == ToString(issue) \o ".md"

\* descriptionLines.map((line) => `- ${line}`)
Bullets(lines) == [i \in 1..Len(lines) |-> "- " \o lines[i]]

\* generateFragmentContent, as the file written under the name of the issue:
\* the delimiter pair, the four keys, an empty line and the bullets.  pr is
\* <<number>>, or <<>> for NaN.
generateFragmentContent(type, issue, pr, title, descriptionLines) ==
    [name |-> FragmentName(issue), delim |-> TRUE, type |-> <<type>>,
     issue |-> <<issue>>, title |-> <<Quote(title)>>,
     body |-> <<"">> \o Bullets(descriptionLines), pr |-> <<pr>>]

\* What a run of the creator comes to.  issue: issueNumber, <<>> when there
\* is none; prompts: the questions asked, in their order; answer: the reply
\* to the overwrite question; written: <<>>, or the arguments of
\* generateFragmentContent when the file was written.
Outcome(issue, prompts, answer, exit, error, written) ==
    [issue |-> issue, prompts |-> prompts, answer |-> answer, exit |-> exit,
     error |-> error, written |-> written]

\* The change type of the interactive run: a number from 1 to
\* CHANGE_TYPES.length picks a type, anything else is validated as a name.
InteractiveType(typeInput) ==
    IF ParseInt(typeInput) # <<>> /\ ParseInt(typeInput)[1] >= 1
       /\ ParseInt(typeInput)[1] <= Len(ChangeTypes)
    THEN <<ChangeTypes[ParseInt(typeInput)[1]]>>
    ELSE validateChangeType(typeInput)

\* interactive(), on the files of the directory.  Each input is the reply
\* to its question; lines are the description lines typed before the end.
interactive(files, issueInput, overwrite, typeInput, prInput, title, lines) ==
    LET issue == validateIssueNumber(issueInput)
        exists == \E f \in files : f.name = FragmentName(issue[1])
        asked == IF exists THEN <<"issue", "overwrite">> ELSE <<"issue">>
        answer == IF exists THEN overwrite ELSE ""
        type == InteractiveType(typeInput)
        pr == IF TrimText(prInput) = "" THEN <<0>> ELSE ParseInt(prInput)
    IN IF issue = <<>>
       THEN Outcome(<<>>, <<"issue">>, "", 1, "InvalidIssue", <<>>)
       ELSE IF exists /\ ToLower(overwrite) # "y"
       THEN Outcome(issue, asked, answer, 0, "", <<>>)
       ELSE IF type = <<>>
       THEN Outcome(issue, asked \o <<"type">>, answer, 1, "InvalidType", <<>>)
       ELSE IF TrimText(prInput) # "" /\ (pr = <<>> \/ pr[1] <= 0)
       THEN Outcome(issue, asked \o <<"type", "pr">>, answer, 1, "InvalidPr", <<>>)
       ELSE IF TrimText(title) = ""
       THEN Outcome(issue, asked \o <<"type", "pr", "title">>, answer, 1, "EmptyTitle", <<>>)
       ELSE IF lines = <<>>
       THEN Outcome(issue, asked \o <<"type", "pr", "title", "description">>, answer, 1,
                    "EmptyDescription", <<>>)
       ELSE Outcome(issue, asked \o <<"type", "pr", "title", "description">>, answer, 0, "",
                    <<[type |-> type[1], issue |-> issue[1], pr |-> pr,
                       title |-> TrimText(title), lines |-> lines]>>)

\* nonInteractive(args).  "" is an argument that is not given, <<>> a
\* description that is not given.
nonInteractive(issueArg, typeArg, prArg, titleArg, descriptionArg) ==
    LET issue == validateIssueNumber(issueArg)
        type == validateChangeType(typeArg)
        title == IF titleArg = "" THEN "Change description" ELSE titleArg
        lines == IF descriptionArg = <<>> THEN <<"Brief description of the change">>
                 ELSE descriptionArg
        pr == IF prArg = "" THEN <<0>> ELSE ParseInt(prArg)
    IN IF issue = <<>> THEN Outcome(<<>>, <<>>, "", 1, "InvalidIssue", <<>>)
       ELSE IF type = <<>> THEN Outcome(issue, <<>>, "", 1, "InvalidType", <<>>)
       ELSE Outcome(issue, <<>>, "", 0, "",
                    <<[type |-> type[1], issue |-> issue[1], pr |-> pr,
                       title |-> title, lines |-> lines]>>)

\* ------------------------------------------------------------ the changelog

\* A file of text: exists, its lines, and eol: the last line ends with a
\* newline (an empty text has eol).  A last line without its newline is never
\* an empty one.

\* The lines /## \[Unreleased\]\s*\n/ can match at: a pending-marker header
\* with the newline after it.
MarkerLines(file) ==
    { i \in 1..Len(file.lines) :
        IsUnreleasedHeader(file.lines[i]) /\ (i < Len(file.lines) \/ file.eol) }

\* UnreleasedIndex with the failed match taken for a position: the first line.
UnreleasedIndexOrTop(file) ==
    IF MarkerLines(file) # {}
    THEN CHOOSE i \in MarkerLines(file) : \A j \in MarkerLines(file) : i <= j
    ELSE IF file.lines = <<>> THEN 0 ELSE 1

\* changelog.match(/## \[Unreleased\]\s*\n/).index, as the number of the
\* header's line; 0 when there is no match.
UnreleasedIndex(file) ==
    IF MarkerLines(file) # {}
    THEN CHOOSE i \in MarkerLines(file) : \A j \in MarkerLines(file) : i <= j
    ELSE 0

\* insertPosition, as the number of lines before it: \s*\n takes the rest of
\* the header line and every line of white space that follows it.
RECURSIVE SkipBlank(_, _)
SkipBlank(lines, i) ==
    IF i < Len(lines) /\ IsBlank(lines[i + 1]) THEN SkipBlank(lines, i + 1) ELSE i

InsertPosition(file) == SkipBlank(file.lines, UnreleasedIndex(file))

\* unreleasedContent is not empty: /\n## \[/ finds the first section header
\* of afterUnreleased that is not its first line, and the text before it
\* (all of it when there is none) holds a line that is not blank.
UnreleasedContentNonEmpty(file) ==
    LET after == SubSeq(file.lines, InsertPosition(file) + 1, Len(file.lines))
        stops == {j \in 2..Len(after) : IsSectionHeader(after[j])}
        last == IF stops = {} THEN Len(after)
                ELSE (CHOOSE j \in stops : \A h \in stops : j <= h) - 1
    IN \E j \in 1..last : ~IsBlank(after[j])

\* InsertSection that replaces what the pending section holds: the text
\* resumes at the next section header.
InsertSectionOverwriting(file, newSection) ==
    LET doc == file.lines
        pos == InsertPosition(file)
        nexts == {j \in (pos + 1)..Len(doc) : IsSectionHeader(doc[j])}
        next == IF nexts = {} THEN Len(doc) + 1
                ELSE CHOOSE j \in nexts : \A h \in nexts : j <= h
    IN SubSeq(doc, 1, pos) \o <<Blank>> \o newSection \o <<Blank>>
           \o SubSeq(doc, next, Len(doc))

\* updatedChangelog, its lines: the text to insertPosition, '\n', newSection,
\* '\n' and the rest of the text.
InsertSection(file, newSection) ==
    SubSeq(file.lines, 1, InsertPosition(file)) \o <<Blank>> \o newSection
        \o <<Blank>> \o SubSeq(file.lines, InsertPosition(file) + 1, Len(file.lines))

\* ------------------------------------------------------------- the release

\* grep -A 5 "## \[Unreleased\]" CHANGELOG.md | grep -q "###"
GrepContext == 5

UnreleasedHasContent(doc) ==
    \E i \in 1..Len(doc) :
        /\ IsUnreleasedHeader(doc[i])
        /\ \E j \in i..(i + GrepContext) : j <= Len(doc) /\ HasTripleHash(doc[j])

\* Bump that leaves the lower parts of the version as they are.
BumpWithoutReset(cur, type) ==
    CASE type = "major" -> <<cur[1] + 1, cur[2], cur[3]>>
      [] type = "minor" -> <<cur[1], cur[2] + 1, cur[3]>>
      [] OTHER -> <<cur[1], cur[2], cur[3] + 1>>

\* NEW_VERSION for a RELEASE_TYPE (or the menu choice 1, 2, 3)
Bump(cur, type) ==
    CASE type = "major" -> <<cur[1] + 1, 0, 0>>
      [] type = "minor" -> <<cur[1], cur[2] + 1, 0>>
      [] type = "patch" -> <<cur[1], cur[2], cur[3] + 1>>
      [] OTHER -> <<>>

\* The awk program, one input line at a time.  st: out (the lines printed),
\* inU (in_unreleased), content (unreleased_content, as lines) and linked
\* (version_link_added).
AwkLine(st, l, version, prev) ==
    IF IsUnreleasedHeader(l)
    THEN [st EXCEPT !.out = st.out \o <<UnreleasedHeader, Blank>>, !.inU = TRUE]
    ELSE LET s1 == IF IsSectionHeader(l) /\ st.inU
                   THEN [st EXCEPT
                           !.out = st.out \o <<VersionHeader(version), Blank>>
                                     \o st.content \o <<Blank>>,
                           !.inU = FALSE]
                   ELSE st
         IN IF s1.inU
            THEN [s1 EXCEPT !.content = s1.content \o <<l>>]
            ELSE IF IsUnreleasedLink(l)
            THEN [s1 EXCEPT !.out = s1.out \o <<UnreleasedLink(version)>>]
            ELSE IF StartsWithBracket(l) /\ ~s1.linked
            THEN [s1 EXCEPT !.out = s1.out \o <<VersionLink(version, prev), l>>,
                            !.linked = TRUE]
            ELSE [s1 EXCEPT !.out = s1.out \o <<l>>]

RECURSIVE AwkRun(_, _, _, _)
AwkRun(st, doc, version, prev) ==
    IF doc = <<>> THEN st
    ELSE AwkRun(AwkLine(st, Head(doc), version, prev), Tail(doc), version, prev)

\* What awk writes to the temporary file.
AwkRewrite(doc, version, prev) ==
    AwkRun([out |-> <<>>, inU |-> FALSE, content |-> <<>>, linked |-> FALSE],
           doc, version, prev).out

\* sed -n "/## \[$NEW_VERSION\]/,/## \[/p": a range opens at a header of the
\* version and closes at the next line with a section header; the lines of
\* every range, both ends included, are printed.  open: a range is open.
RECURSIVE SedRange(_, _, _)
SedRange(doc, version, open) ==
    IF doc = <<>> THEN <<>>
    ELSE LET l == Head(doc)
         IN IF open
            THEN <<l>> \o SedRange(Tail(doc), version, ~IsSectionHeader(l))
            ELSE IF l.k = "ver" /\ l.v = version
            THEN <<l>> \o SedRange(Tail(doc), version, TRUE)
            ELSE SedRange(Tail(doc), version, FALSE)

\* sed '$d'
DropLast(ls) == IF ls = <<>> THEN <<>> ELSE SubSeq(ls, 1, Len(ls) - 1)

\* tail -n +3
FromThird(ls) == SubSeq(ls, 3, Len(ls))

\* $(...) drops the newlines at the end of the output: no empty line is
\* left at the end.
RECURSIVE StripTrailingNewlines(_)
StripTrailingNewlines(ls) ==
    IF ls = <<>> THEN <<>>
    ELSE IF ls[Len(ls)].s = "" THEN StripTrailingNewlines(SubSeq(ls, 1, Len(ls) - 1))
    ELSE ls

\* The text after the subject in the message of the tag.
TagNotes(doc, version) == StripTrailingNewlines(DropLast(SedRange(doc, version, FALSE)))

\* RELEASE_NOTES
ReleaseNotes(doc, version) ==
    StripTrailingNewlines(FromThird(DropLast(SedRange(doc, version, FALSE))))

\* ------------------------------------------------------------------- state

VARIABLES
    changelog,    \* CHANGELOG.md: [exists, lines, eol]
    changeset,    \* .changeset: [exists, files], files a set of fragment files
    pkgVersion,   \* the version of package.json
    pc,           \* where the running script is; "idle" between runs
    args,         \* the flags of the run: [op, dryRun, skip, force]
    fragments,    \* aggregate: what readFragments returned
    newSection,   \* aggregate: the rendered section
    newVersion,   \* release: NEW_VERSION
    tempFile,     \* release: the lines of TEMP_FILE
    result,       \* what the run printed and its exit status (-1 while running)
    start,        \* the files as the run found them (CURRENT_VERSION is start.pkgVersion)
    runs          \* runs started

vars == <<changelog, changeset, pkgVersion, pc, args, fragments, newSection,
          newVersion, tempFile, result, start, runs>>

\* ------------------------------------------------------------ initial files

InitVersion == <<1, 0, 0>>
OlderVersion == <<0, 9, 0>>

PendingParts ==
    { <<>>,
      <<UnreleasedHeader>>,
      <<UnreleasedHeader, Blank>>,
      <<UnreleasedHeader, Blank, SubHeader("Added"), Prose("- hand-written entry"), Blank>> }

ReleasedParts ==
    { <<>>,
      <<VersionHeader(InitVersion), Blank, SubHeader("Added"), Prose("- first release"), Blank>> }

LinkParts ==
    { <<>>,
      <<UnreleasedLink(InitVersion)>>,
      <<UnreleasedLink(InitVersion), VersionLink(InitVersion, OlderVersion)>> }

NoFile == [exists |-> FALSE, lines |-> <<>>, eol |-> TRUE]
Doc(lines) == [exists |-> TRUE, lines |-> lines, eol |-> TRUE]
Unterminated(lines) == [exists |-> TRUE, lines |-> lines, eol |-> FALSE]

\* Changelogs whose last line has no newline: a new one that ends with the
\* pending-marker header, and one that ends in its pending section.
UnterminatedDocs ==
    { Unterminated(<<TitleLine, Blank, UnreleasedHeader>>),
      Unterminated(<<TitleLine, Blank, UnreleasedHeader, Blank, SubHeader("Added"),
                     Prose("- hand-written entry")>>) }

InitDocs ==
    {NoFile} \cup UnterminatedDocs \cup
    { Doc(<<TitleLine, Blank>> \o p \o r \o l) :
        p \in PendingParts, r \in ReleasedParts, l \in LinkParts }

F5 == File("5.md", TRUE, <<"added">>, <<5>>, <<"Add Y">>, <<"- y one">>)
F7 == File("7.md", TRUE, <<"added">>, <<7>>, <<"Add Z">>, <<"- z one", "", "- z two">>)
F10 == File("10.md", TRUE, <<"fixed">>, <<10>>, <<"Fix X">>, <<"- x one">>)
F5b == File("5-followup.md", TRUE, <<"added">>, <<5>>, <<"Add Y again">>, <<"- y two">>)
FPerf == File("11.md", TRUE, <<"perf">>, <<11>>, <<"Speed up">>, <<"- faster">>)
FDocs == File("12.md", TRUE, <<"docs">>, <<12>>, <<"Document">>, <<"- documented">>)
FNoIssue == File("13.md", TRUE, <<"fixed">>, <<>>, <<"No issue">>, <<"- text">>)
FNoDelim == File("1.md", FALSE, <<>>, <<>>, <<>>, <<"### Added", "- Implement skills [#1]">>)
FEmptyBody == File("14.md", TRUE, <<"added">>, <<14>>, <<"Empty">>, <<"", "">>)
FIssue0 == File("0.md", TRUE, <<"added">>, <<0>>, <<"Zero">>, <<"- zero">>)
FNoType == File("15.md", TRUE, <<>>, <<15>>, <<"Untyped">>, <<"- untyped">>)
FNoTitle == File("16.md", TRUE, <<"added">>, <<16>>, <<>>, <<"- untitled">>)
FTemplate == File("_template.md", TRUE, <<"added">>, <<1>>, <<"Template">>, <<"- describe">>)
FReadme == File("README.md", FALSE, <<>>, <<>>, <<>>, <<"# Fragments">>)
FProto == File("17.md", TRUE, <<"constructor">>, <<17>>, <<"Rework">>, <<"- reworked">>)
FNotes == File("notes.txt", TRUE, <<"added">>, <<2>>, <<"Notes">>, <<"- notes">>)

NoDir == [exists |-> FALSE, files |-> {}]
Dir(files) == [exists |-> TRUE, files |-> files]

InitDirs ==
    { NoDir, Dir({}),
      Dir({F5, F7, F10}),
      Dir({F5, F5b}),
      Dir({FPerf, FDocs}),
      Dir({F5, FNoIssue, FNoDelim}),
      Dir({FNoDelim, FTemplate, FReadme}),
      Dir({F10, FNotes, FTemplate}),
      Dir({FEmptyBody, FIssue0}),
      Dir({FNoType, FNoTitle}),
      Dir({F5, FProto}) }

NoArgs == [op |-> "none", dryRun |-> FALSE, skip |-> FALSE, force |-> FALSE]

NoResult ==
    [exit |-> -1, error |-> "", parseWarnings |-> <<>>, contentWarning |-> FALSE,
     preview |-> <<>>, wouldDelete |-> <<>>, deleteFailed |-> {},
     tagNotes |-> <<>>, published |-> FALSE, releaseNotes |-> <<>>,
     issue |-> <<>>, prompts |-> <<>>, answer |-> "", written |-> <<>>]

\* Every changelog with the fragments of one directory or none, and every
\* directory with a changelog of each kind.
CoreDirs == {NoDir, Dir({F5, F7, F10})}

CoreDocs ==
    { NoFile,
      Doc(<<TitleLine, Blank,
            VersionHeader(InitVersion), Blank, SubHeader("Added"),
            Prose("- first release"), Blank>>),
      Doc(<<TitleLine, Blank, UnreleasedHeader, Blank,
            VersionHeader(InitVersion), Blank, SubHeader("Added"),
            Prose("- first release"), Blank,
            UnreleasedLink(InitVersion), VersionLink(InitVersion, OlderVersion)>>),
      Doc(<<TitleLine, Blank, UnreleasedHeader, Blank, SubHeader("Added"),
            Prose("- hand-written entry"), Blank>>) }

Init ==
    /\ \/ changelog \in InitDocs /\ changeset \in CoreDirs
       \/ changelog \in CoreDocs /\ changeset \in InitDirs
    /\ pkgVersion = InitVersion
    /\ pc = "idle"
    /\ args = NoArgs
    /\ fragments = <<>>
    /\ newSection = <<>>
    /\ newVersion = <<>>
    /\ tempFile = <<>>
    /\ result = NoResult
    /\ start = [changelog |-> changelog, changeset |-> changeset, pkgVersion |-> pkgVersion]
    /\ runs = 0

\* A run starts: the locals of the last one are gone.
Begin(a) ==
    /\ pc = "idle"
    /\ runs < MaxRuns
    /\ runs' = runs + 1
    /\ args' = a
    /\ start' = [changelog |-> changelog, changeset |-> changeset, pkgVersion |-> pkgVersion]

\* process.exit / exit / the end of the script
Exit(r, status, error) ==
    /\ pc' = "idle"
    /\ result' = [r EXCEPT !.exit = status, !.error = error]

\* --------------------------------------------------------------- aggregate

\* fs.readdirSync(CHANGESET_DIR): the files in an order the file system picks.
Listings(dir) ==
    LET n == Cardinality(dir.files)
    IN { l \in [1..n -> dir.files] : \A i, j \in 1..n : l[i] = l[j] => i = j }

\* main, to the call of updateChangelog: readFragments, the early return on
\* no fragment, groupFragmentsByType (main's catch when it throws) and
\* generateChangelogSection.
AggStart(dryRun, listing) ==
    /\ Begin([op |-> "aggregate", dryRun |-> dryRun, skip |-> FALSE, force |-> FALSE])
    /\ LET fs == IF changeset.exists THEN readFragments(listing) ELSE <<>>
           ws == IF changeset.exists THEN readWarnings(listing) ELSE <<>>
           r == [NoResult EXCEPT !.parseWarnings = ws]
       IN /\ fragments' = fs
          /\ IF fs = <<>>
             THEN /\ newSection' = <<>>
                  /\ Exit(r, 0, "")
             ELSE IF GroupingThrows(fs)
             THEN /\ newSection' = <<>>
                  /\ Exit(r, 1, "TypeError")
             ELSE /\ newSection' = generateChangelogSection(groupFragmentsByType(fs))
                  /\ pc' = "agg_update"
                  /\ result' = r
    /\ newVersion' = <<>>
    /\ tempFile' = <<>>
    /\ UNCHANGED <<changelog, changeset, pkgVersion>>

\* WrittenChangelog that writes in dry-run mode too.
WrittenChangelogAlways(file, section, dryRun) ==
    [file EXCEPT !.lines = InsertSection(file, section)]

\* The end of updateChangelog: fs.writeFileSync(CHANGELOG_PATH, updatedChangelog)
\* unless dryRun.
WrittenChangelog(file, section, dryRun) ==
    IF dryRun THEN file ELSE [file EXCEPT !.lines = InsertSection(file, section)]

\* updateChangelog(newSection, dryRun), and main's catch when it throws.
updateChangelog ==
    /\ pc = "agg_update"
    /\ IF ~changelog.exists
       THEN /\ Exit(result, 1, "MissingChangelog")
            /\ UNCHANGED changelog
       ELSE IF UnreleasedIndex(changelog) = 0
       THEN /\ Exit(result, 1, "MissingPendingSection")
            /\ UNCHANGED changelog
       ELSE /\ pc' = "agg_delete"
            /\ result' =
                 [result EXCEPT
                    !.contentWarning =
                        UnreleasedContentNonEmpty(changelog) /\ ~args.dryRun,
                    !.preview = IF args.dryRun THEN newSection ELSE <<>>]
            /\ changelog' = WrittenChangelog(changelog, newSection, args.dryRun)
    /\ UNCHANGED <<changeset, pkgVersion, args, fragments, newSection, newVersion,
                   tempFile, start, runs>>

FragmentNames == {fragments[i].filename : i \in 1..Len(fragments)}

\* RemainingFiles of a deletion that gives up as a whole when one unlinkSync
\* throws.
RemainingFilesAllOrNothing(files, names, failing, dryRun) ==
    IF dryRun \/ failing # {} THEN files ELSE {f \in files : f.name \notin names}

\* RemainingFiles of a deletion that empties the directory.
RemainingFilesNone(files, names, failing, dryRun) == IF dryRun THEN files ELSE {}

\* The files deleteFragments leaves: in dry-run all of them, otherwise all
\* but those of the fragments whose unlinkSync succeeds.
RemainingFiles(files, names, failing, dryRun) ==
    IF dryRun THEN files ELSE {f \in files : f.name \notin names \ failing}

\* deleteFragments(fragments, dryRun) and the end of main.  failing: the
\* files whose unlinkSync throws.
deleteFragments(failing) ==
    /\ pc = "agg_delete"
    /\ failing \subseteq FragmentNames
    /\ args.dryRun => failing = {}
    /\ changeset' =
         [changeset EXCEPT
            !.files = RemainingFiles(changeset.files, FragmentNames, failing, args.dryRun)]
    /\ IF args.dryRun
       THEN Exit([result EXCEPT
                    !.wouldDelete = [i \in 1..Len(fragments) |-> fragments[i].filename]],
                 0, "")
       ELSE Exit([result EXCEPT !.deleteFailed = failing], 0, "")
    /\ UNCHANGED <<changelog, pkgVersion, args, fragments, newSection, newVersion,
                   tempFile, start, runs>>

\* ----------------------------------------------------------------- release

\* The values CUSTOM_VERSION (or the version typed at the menu) takes: unset,
\* one below every version of the model, the current one, the next major.
CustomVersions(cur) == {<<>>, OlderVersion, cur, <<cur[1] + 1, 0, 0>>}

ReleaseTypes == {"", "major", "minor", "patch", "hotfix"}
MenuChoices == {"1", "2", "3", "4", "9"}

\* The menu is read only when CUSTOM_VERSION is unset and prompts are not
\* skipped, and a version is typed only at choice 4; "" and <<>> stand for
\* what is never read.
MenuFor(custom, skip) == IF custom = <<>> /\ ~skip THEN MenuChoices ELSE {""}
TypedFor(choice, cur) == IF choice = "4" THEN CustomVersions(cur) ELSE {<<>>}

\* GetNewVersion that takes a RELEASE_TYPE it does not know, or none, for
\* patch.
GetNewVersionLenient(cur, custom, type, skip, choice, typed) ==
    IF custom # <<>> THEN [version |-> custom, error |-> ""]
    ELSE IF skip
    THEN IF type \in {"major", "minor"}
         THEN [version |-> Bump(cur, type), error |-> ""]
         ELSE [version |-> Bump(cur, "patch"), error |-> ""]
    ELSE CASE choice = "1" -> [version |-> Bump(cur, "major"), error |-> ""]
           [] choice = "2" -> [version |-> Bump(cur, "minor"), error |-> ""]
           [] choice = "3" -> [version |-> Bump(cur, "patch"), error |-> ""]
           [] choice = "4" -> [version |-> typed, error |-> ""]
           [] OTHER -> [version |-> <<>>, error |-> "InvalidChoice"]

\* "Get new version": NEW_VERSION, or the error the script exits 1 with.
\* choice and typed are what the interactive menu reads.
GetNewVersion(cur, custom, type, skip, choice, typed) ==
    IF custom # <<>> THEN [version |-> custom, error |-> ""]
    ELSE IF skip
    THEN IF type = "" THEN [version |-> <<>>, error |-> "NoReleaseType"]
         ELSE IF type \in {"major", "minor", "patch"}
         THEN [version |-> Bump(cur, type), error |-> ""]
         ELSE [version |-> <<>>, error |-> "InvalidReleaseType"]
    ELSE CASE choice = "1" -> [version |-> Bump(cur, "major"), error |-> ""]
           [] choice = "2" -> [version |-> Bump(cur, "minor"), error |-> ""]
           [] choice = "3" -> [version |-> Bump(cur, "patch"), error |-> ""]
           [] choice = "4" -> [version |-> typed, error |-> ""]
           [] OTHER -> [version |-> <<>>, error |-> "InvalidChoice"]

\* The script from its first line to "Releasing version": the environment,
\* CURRENT_VERSION, the git checks (the work tree is clean and on main) and
\* NEW_VERSION.
RelStart(custom, type, skip, force, choice, typed) ==
    /\ Begin([op |-> "release", dryRun |-> FALSE, skip |-> skip, force |-> force])
    /\ LET got == GetNewVersion(pkgVersion, custom, type, skip, choice, typed)
       IN /\ newVersion' = got.version
          /\ IF got.error # ""
             THEN Exit(NoResult, 1, got.error)
             ELSE /\ pc' = "rel_check"
                  /\ result' = NoResult
    /\ fragments' = <<>>
    /\ newSection' = <<>>
    /\ tempFile' = <<>>
    /\ UNCHANGED <<changelog, changeset, pkgVersion>>

\* "Check if [Unreleased] section has content" and "Proceed with release?".
\* grep on a missing file prints nothing, so the section appears empty.
\* continue, proceed: the replies to the two prompts.
RelCheck(continue, proceed) ==
    /\ pc = "rel_check"
    /\ LET empty == ~changelog.exists \/ ~UnreleasedHasContent(changelog.lines)
           stopEmpty == empty /\ ~args.force /\ (args.skip \/ ~continue)
           stopProceed == ~args.skip /\ ~proceed
       IN IF stopEmpty THEN Exit(result, 1, "EmptyRelease")
          ELSE IF stopProceed THEN Exit(result, 1, "Declined")
          ELSE /\ pc' = "rel_npm"
               /\ UNCHANGED result
    /\ UNCHANGED <<changelog, changeset, pkgVersion, args, fragments, newSection,
                   newVersion, tempFile, start, runs>>

\* npm version $NEW_VERSION --no-git-tag-version: with no argument it prints
\* the versions; it refuses the version package.json already has.
RelNpm ==
    /\ pc = "rel_npm"
    /\ IF newVersion = <<>>
       THEN /\ pc' = "rel_awk"
            /\ UNCHANGED <<pkgVersion, result>>
       ELSE IF newVersion = pkgVersion
       THEN /\ Exit(result, 1, "NpmVersion")
            /\ UNCHANGED pkgVersion
       ELSE /\ pc' = "rel_awk"
            /\ pkgVersion' = newVersion
            /\ UNCHANGED result
    /\ UNCHANGED <<changelog, changeset, args, fragments, newSection, newVersion,
                   tempFile, start, runs>>

\* TEMP_FILE=$(mktemp); awk ... CHANGELOG.md > "$TEMP_FILE": awk exits 2
\* when it cannot open CHANGELOG.md, and set -e ends the script.
RelAwk ==
    /\ pc = "rel_awk"
    /\ IF ~changelog.exists
       THEN /\ Exit(result, 2, "Awk")
            /\ UNCHANGED tempFile
       ELSE /\ pc' = "rel_mv"
            /\ tempFile' = AwkRewrite(changelog.lines, newVersion, start.pkgVersion)
            /\ UNCHANGED result
    /\ UNCHANGED <<changelog, changeset, pkgVersion, args, fragments, newSection,
                   newVersion, start, runs>>

\* mv "$TEMP_FILE" CHANGELOG.md and the commit.
RelMv ==
    /\ pc = "rel_mv"
    /\ changelog' = Doc(tempFile)
    /\ pc' = "rel_tag"
    /\ UNCHANGED <<changeset, pkgVersion, args, fragments, newSection, newVersion,
                   tempFile, result, start, runs>>

\* The tag with its notes, the push, and the GitHub release with
\* RELEASE_NOTES.  publish: SHOULD_CREATE_RELEASE is "true" and gh is there.
RelTag(publish) ==
    /\ pc = "rel_tag"
    /\ Exit([result EXCEPT
                !.tagNotes = TagNotes(changelog.lines, newVersion),
                !.published = publish,
                !.releaseNotes = IF publish THEN ReleaseNotes(changelog.lines, newVersion)
                                 ELSE <<>>],
            0, "")
    /\ UNCHANGED <<changelog, changeset, pkgVersion, args, fragments, newSection,
                   newVersion, tempFile, start, runs>>

\* ------------------------------------------------------------------ create

\* What is typed or given to the creator.
IssueInputs == {"5", "7", "0", "abc"}
TypeInputs == {"added", "Fixed ", "2", "perf"}
PrInputs == {"", "12", "abc"}
TitleInputs == {"", "Add login", " Padded title "}
DescriptionInputs == {<<>>, <<"first point", "second point">>}
OverwriteAnswers == {"y", "Y", "n"}

\* WriteFile that leaves a file that is there as it is.
WriteFileIfAbsent(files, f) ==
    IF \E g \in files : g.name = f.name THEN files ELSE files \cup {f}

\* fs.writeFileSync(fragmentPath, fragmentContent): the file takes the place
\* of the one of its name.
WriteFile(files, f) == {g \in files : g.name # f.name} \cup {f}

\* main of the creator and what it calls: the directory is made when it is
\* missing, interactive() or nonInteractive(args) runs, and the file is
\* written when the run comes to it.  The inputs are the replies typed or
\* the arguments given.
Create(interactiveMode, issueInput, overwrite, typeInput, prInput, title, lines) ==
    LET o == IF interactiveMode
             THEN interactive(changeset.files, issueInput, overwrite, typeInput,
                              prInput, title, lines)
             ELSE nonInteractive(issueInput, typeInput, prInput, title, lines)
    IN /\ Begin([op |-> "create", dryRun |-> FALSE, skip |-> ~interactiveMode,
                 force |-> FALSE])
       /\ changeset' =
            [exists |-> TRUE,
             files |-> IF o.written = <<>> THEN changeset.files
                       ELSE WriteFile(changeset.files,
                                      generateFragmentContent(
                                          o.written[1].type, o.written[1].issue,
                                          o.written[1].pr, o.written[1].title,
                                          o.written[1].lines))]
       /\ Exit([NoResult EXCEPT !.issue = o.issue, !.prompts = o.prompts,
                                !.answer = o.answer, !.written = o.written],
               o.exit, o.error)
       /\ fragments' = <<>>
       /\ newSection' = <<>>
       /\ newVersion' = <<>>
       /\ tempFile' = <<>>
       /\ UNCHANGED <<changelog, pkgVersion>>

\* The creator without --issue and --type: interactive().
CreateInteractive(issueInput, overwrite, typeInput, prInput, title, lines) ==
    Create(TRUE, issueInput, overwrite, typeInput, prInput, title, lines)

\* The creator with --issue and --type: nonInteractive(args).
CreateNonInteractive(issueArg, typeArg, prArg, titleArg, descriptionArg) ==
    Create(FALSE, issueArg, "", typeArg, prArg, titleArg, descriptionArg)

\* ------------------------------------------------------------ specification

Next ==
    \/ \E dryRun \in BOOLEAN, listing \in Listings(changeset) : AggStart(dryRun, listing)
    \/ updateChangelog
    \/ \E failing \in SUBSET FragmentNames : deleteFragments(failing)
    \/ \E custom \in CustomVersions(pkgVersion), type \in ReleaseTypes,
          skip \in BOOLEAN, force \in BOOLEAN :
          \E choice \in MenuFor(custom, skip) :
          \E typed \in TypedFor(choice, pkgVersion) :
            RelStart(custom, type, skip, force, choice, typed)
    \/ \E continue \in BOOLEAN, proceed \in BOOLEAN : RelCheck(continue, proceed)
    \/ RelNpm
    \/ RelAwk
    \/ RelMv
    \/ \E publish \in BOOLEAN : RelTag(publish)

Spec == Init /\ [][Next]_vars

\* The creator alone, on a fragment directory that is missing or empty.
InitCreate ==
    /\ Init
    /\ changelog = NoFile
    /\ changeset \in {NoDir, Dir({})}

NextCreate ==
    \/ \E issueInput \in IssueInputs, overwrite \in OverwriteAnswers,
          typeInput \in TypeInputs, prInput \in PrInputs, title \in TitleInputs,
          lines \in DescriptionInputs :
          CreateInteractive(issueInput, overwrite, typeInput, prInput, title, lines)
    \/ \E issueArg \in IssueInputs, typeArg \in TypeInputs, prArg \in PrInputs,
          titleArg \in TitleInputs, descriptionArg \in DescriptionInputs :
          CreateNonInteractive(issueArg, typeArg, prArg, titleArg, descriptionArg)

SpecCreate == InitCreate /\ [][NextCreate]_vars

\* -------------------------------------------------------------- properties

HasPendingMarker(doc) == \E i \in 1..Len(doc) : doc[i].k = "unrel"

\* The lines of the pending section: after the first pending-marker header,
\* up to the next section header.
PendingRange(doc) ==
    { j \in 1..Len(doc) :
        \E h \in 1..(j - 1) :
            /\ doc[h].k = "unrel"
            /\ \A i \in 1..(h - 1) : doc[i].k # "unrel"
            /\ \A i \in (h + 1)..j : doc[i].k \notin {"unrel", "ver"} }

\* The pending section holds a type-subsection ("### ...").
PendingHasSubsection(doc) == \E j \in PendingRange(doc) : doc[j].k = "sub"

StrictlyGreater(new, cur) == Len(new) = 3 /\ VersionLess(cur, new)

AggregateRan == args.op = "aggregate" /\ fragments # <<>> /\ newSection # <<>>
ReleaseCompleted == args.op = "release" /\ pc = "idle" /\ result.exit = 0

\* The pending-marker header is a whole line of the file: its newline is there.
MarkerTerminated(file) ==
    \E i \in 1..Len(file.lines) :
        file.lines[i].k = "unrel" /\ (i < Len(file.lines) \/ file.eol)

\* The new document is the old one with the block (an empty line, the
\* section, an empty line) spliced in after the first pending-marker header
\* and the blank lines that follow it.
SplicedAfterMarker(old, section, new) ==
    \E h \in 1..Len(old), k \in 1..Len(old) :
        /\ h <= k
        /\ old[h].k = "unrel"
        /\ \A j \in 1..(h - 1) : old[j].k # "unrel"
        /\ \A j \in (h + 1)..k : old[j].k = "blank"
        /\ new = SubSeq(old, 1, k) \o <<Blank>> \o section \o <<Blank>>
                   \o SubSeq(old, k + 1, Len(old))

\* C1: whatever a merge that is no dry run writes is the old document with
\* the rendered section spliced in after the pending-marker header: every old
\* line is still there, in its order, and what the pending section held comes
\* after the new block.  And a merge into a changelog whose marker header is
\* a whole line does not fail and does write.
C1_MergeKeepsContent ==
    (AggregateRan /\ ~args.dryRun)
    => /\ changelog # start.changelog
          => /\ changelog.exists /\ changelog.eol = start.changelog.eol
             /\ SplicedAfterMarker(start.changelog.lines, newSection, changelog.lines)
       /\ ( /\ pc # "agg_update"
            /\ start.changelog.exists
            /\ MarkerTerminated(start.changelog) )
          => /\ result.exit \in {-1, 0}
             /\ changelog # start.changelog

\* C1, its case: a section was merged into a changelog whose pending section
\* already held an entry, and the entry is still in the document.
C1_Witness ==
    /\ AggregateRan
    /\ ~args.dryRun
    /\ pc = "agg_delete"
    /\ \E j \in PendingRange(start.changelog.lines) :
          start.changelog.lines[j] = Prose("- hand-written entry")
    /\ \E j \in 1..Len(changelog.lines) :
          changelog.lines[j] = Prose("- hand-written entry")
    /\ changelog # start.changelog

\* C2: after a completed release, to a greater version, of a changelog whose
\* pending section holds a type-subsection, the marker header is followed (blank lines apart) by the header of the new
\* version, and every line the pending section held that is not blank is in
\* the section of that header.
C2_ReleaseMovesPending ==
    ( /\ ReleaseCompleted
      /\ StrictlyGreater(newVersion, start.pkgVersion)
      /\ start.changelog.exists
      /\ HasPendingMarker(start.changelog.lines)
      /\ PendingHasSubsection(start.changelog.lines) )
    => LET old == start.changelog.lines
           new == changelog.lines
       IN \E u \in 1..Len(new), h \in 1..Len(new) :
             /\ u < h
             /\ new[u].k = "unrel"
             /\ new[h] = VersionHeader(newVersion)
             /\ \A j \in (u + 1)..(h - 1) : new[j].k = "blank"
             /\ \A i \in PendingRange(old) :
                   old[i].k \notin {"blank", "ulink", "vlink"}
                   => \E j \in (h + 1)..Len(new) :
                         /\ new[j] = old[i]
                         /\ \A m \in (h + 1)..j : new[m].k \notin {"unrel", "ver"}

\* C3: a release to a greater version, with prompts skipped and no force
\* flag, on a changelog whose pending section holds no type-subsection, goes
\* no further than the check of the pending section, ends with EmptyRelease
\* and changes neither package.json nor the changelog.
C3_EmptyReleaseRejected ==
    ( /\ args.op = "release"
      /\ args.skip
      /\ ~args.force
      /\ StrictlyGreater(newVersion, start.pkgVersion)
      /\ start.changelog.exists
      /\ HasPendingMarker(start.changelog.lines)
      /\ ~PendingHasSubsection(start.changelog.lines) )
    => /\ pc \in {"rel_check", "idle"}
       /\ pc = "idle" => result.error = "EmptyRelease"
       /\ pkgVersion = start.pkgVersion
       /\ changelog = start.changelog

\* C4: a release of a changelog with the pending marker that has changed
\* package.json or the changelog uses a version strictly greater than the
\* version it found.
C4_VersionStrictlyGreater ==
    ( /\ args.op = "release"
      /\ start.changelog.exists
      /\ HasPendingMarker(start.changelog.lines)
      /\ pkgVersion # start.pkgVersion \/ changelog # start.changelog )
    => StrictlyGreater(newVersion, start.pkgVersion)

\* C5: every fragment readFragments returns has a type, a positive integer
\* issue, a title and a body that is not empty.
C5_FragmentsWellFormed ==
    \A i \in 1..Len(fragments) :
        /\ fragments[i].type # <<>>
        /\ fragments[i].issue # <<>>
        /\ fragments[i].issue[1] > 0
        /\ fragments[i].title # <<>>
        /\ fragments[i].body # <<>>

HeaderOrder(h) ==
    CASE h = "Added" -> 1
      [] h = "Changed" -> 2
      [] h = "Deprecated" -> 3
      [] h = "Removed" -> 4
      [] h = "Fixed" -> 5
      [] h = "Security" -> 6
      [] OTHER -> 999

PositiveIssues ==
    \A i \in 1..Len(fragments) :
        fragments[i].issue # <<>> /\ fragments[i].issue[1] > 0

C7_RenderIgnoresListingOrder ==
    pc = "agg_update"
    => \A l \in Listings(changeset) :
          generateChangelogSection(groupFragmentsByType(readFragments(l))) = newSection

\* C8: an aggregate run that read at least one fragment and found no
\* CHANGELOG.md, or one without the pending marker, writes no changelog,
\* deletes no file and exits 1 with MissingChangelog or MissingPendingSection.
C8_FatalWithoutInsertionPoint ==
    ( /\ AggregateRan
      /\ ~start.changelog.exists \/ ~HasPendingMarker(start.changelog.lines) )
    => /\ changelog = start.changelog
       /\ changeset = start.changeset
       /\ pc \in {"agg_update", "idle"}
       /\ pc = "idle"
          => /\ result.exit = 1
             /\ result.error = IF start.changelog.exists
                               THEN "MissingPendingSection" ELSE "MissingChangelog"

\* C8, its case: a run with a fragment ended on a changelog without the marker.
C8_Witness ==
    /\ AggregateRan
    /\ pc = "idle"
    /\ start.changelog.exists
    /\ ~HasPendingMarker(start.changelog.lines)
    /\ result.exit = 1

\* C9: during and after an aggregate run in dry-run mode CHANGELOG.md and
\* the fragment directory are as the run found them, and a run that ends
\* well has printed the rendered section and the filenames of the fragments.
C9_DryRunChangesNothing ==
    (args.op = "aggregate" /\ args.dryRun)
    => /\ changelog = start.changelog
       /\ changeset = start.changeset
       /\ (pc = "idle" /\ result.exit = 0 /\ fragments # <<>>)
          => /\ result.preview = newSection
             /\ result.wouldDelete = [i \in 1..Len(fragments) |-> fragments[i].filename]

\* C9, its case: a dry run with fragments, on a changelog with the marker,
\* came to its end.
C9_Witness ==
    /\ AggregateRan
    /\ args.dryRun
    /\ pc = "idle"
    /\ result.exit = 0
    /\ result.wouldDelete # <<>>
    /\ HasPendingMarker(changelog.lines)

\* C10: a release that ended with an error has left package.json and the
\* changelog as it found them.
C10_AbortChangesNothing ==
    (args.op = "release" /\ pc = "idle" /\ result.exit \notin {-1, 0})
    => /\ pkgVersion = start.pkgVersion
       /\ changelog = start.changelog

\* C11: a merge that is no dry run and reached the deletion ends with exit
\* status 0 whatever unlinkSync threw; the directory has lost exactly the
\* files of the fragments read whose deletion did not fail, and the changelog
\* is the one the merge wrote.
C11_DeleteBestEffort ==
    (AggregateRan /\ ~args.dryRun /\ pc = "idle" /\ changelog # start.changelog)
    => /\ result.exit = 0
       /\ result.deleteFailed \subseteq {fragments[i].filename : i \in 1..Len(fragments)}
       /\ changeset.files =
             { f \in start.changeset.files :
                 \/ f.name \in result.deleteFailed
                 \/ \A i \in 1..Len(fragments) : fragments[i].filename # f.name }
       /\ SplicedAfterMarker(start.changelog.lines, newSection, changelog.lines)

\* C11, its case: the deletion of one file failed, another file was deleted
\* and the merged changelog is in place.
C11_Witness ==
    /\ AggregateRan
    /\ ~args.dryRun
    /\ pc = "idle"
    /\ result.exit = 0
    /\ result.deleteFailed # {}
    /\ changeset.files # start.changeset.files
    /\ changelog # start.changelog

\* Names readFragments leaves out, among the names of the model.
SpecialNames == {"notes.txt", "_template.md", "README.md"}

\* The files of a directory that are candidates, and those of them whose
\* text has the delimiter pair.
Candidates(dir) ==
    IF dir.exists THEN {f \in dir.files : f.name \notin SpecialNames} ELSE {}
Parsable(dir) == {f \in Candidates(dir) : f.delim}

\* C12: an aggregate run on a missing directory, or on one none of whose
\* candidates parses, ends at once with exit status 0, and the changelog and
\* the directory are as the run found them, whatever the changelog is.
C12_NoFragmentsNoOp ==
    (args.op = "aggregate" /\ Parsable(start.changeset) = {})
    => /\ pc = "idle"
       /\ result.exit = 0
       /\ result.error = ""
       /\ changelog = start.changelog
       /\ changeset = start.changeset

\* C12, its case: a directory with files but no fragment, and no changelog.
C12_Witness ==
    /\ args.op = "aggregate"
    /\ ~args.dryRun
    /\ start.changeset.files # {}
    /\ fragments = <<>>
    /\ ~start.changelog.exists
    /\ result.exit = 0

\* C13: readFragments warns once for each candidate whose parse throws,
\* naming it, and returns every other candidate once, with its filename and
\* what its text holds; no other file is returned or warned about.
C13_StoreToleratesBadFiles ==
    args.op = "aggregate"
    => /\ Len(result.parseWarnings) = Cardinality(Candidates(start.changeset) \ Parsable(start.changeset))
       /\ {result.parseWarnings[i] : i \in 1..Len(result.parseWarnings)}
             = {f.name : f \in Candidates(start.changeset) \ Parsable(start.changeset)}
       /\ Len(fragments) = Cardinality(Parsable(start.changeset))
       /\ \A f \in Parsable(start.changeset) :
             \E i \in 1..Len(fragments) :
                /\ fragments[i].filename = f.name
                /\ fragments[i].type = f.type
                /\ fragments[i].issue = f.issue

\* C13, its case: one file failed to parse and another one was returned.
C13_Witness ==
    /\ args.op = "aggregate"
    /\ result.parseWarnings # <<>>
    /\ fragments # <<>>

\* The document has exactly one pending-marker header and no version header
\* above it.
OneMarkerFirst(doc) ==
    \E u \in 1..Len(doc) :
        /\ doc[u].k = "unrel"
        /\ \A j \in 1..Len(doc) : doc[j].k = "unrel" => j = u
        /\ \A j \in 1..(u - 1) : doc[j].k # "ver"

\* The version headers of the document stand newest first.
NewestFirst(doc) ==
    \A i, j \in 1..Len(doc) :
        (i < j /\ doc[i].k = "ver" /\ doc[j].k = "ver")
        => /\ Len(doc[i].v) = 3
           /\ Len(doc[j].v) = 3
           /\ VersionLess(doc[j].v, doc[i].v)

\* C15: a run that started on a changelog with exactly one pending-marker
\* section, placed first, and released sections newest first, ends with a
\* changelog of that kind (so every sequence of runs keeps it).
C15_OneMarkerNewestFirst ==
    ( /\ pc = "idle"
      /\ start.changelog.exists
      /\ OneMarkerFirst(start.changelog.lines)
      /\ NewestFirst(start.changelog.lines) )
    => /\ changelog.exists
       /\ OneMarkerFirst(changelog.lines)
       /\ NewestFirst(changelog.lines)

\* C16: after a completed release, to a greater version, of a changelog with
\* a released section and the pending marker's link, every link of the
\* pending marker compares the new version with HEAD, and the link that
\* compares the version found with the new one is there, above every other
\* version link.
C16_LinksUpdated ==
    ( /\ ReleaseCompleted
      /\ StrictlyGreater(newVersion, start.pkgVersion)
      /\ start.changelog.exists
      /\ OneMarkerFirst(start.changelog.lines)
      /\ \E j \in 1..Len(start.changelog.lines) : start.changelog.lines[j].k = "ver"
      /\ \E j \in 1..Len(start.changelog.lines) : start.changelog.lines[j].k = "ulink" )
    => LET new == changelog.lines
       IN /\ \E j \in 1..Len(new) : new[j] = UnreleasedLink(newVersion)
          /\ \A j \in 1..Len(new) : new[j].k = "ulink" => new[j] = UnreleasedLink(newVersion)
          /\ \E n \in 1..Len(new) :
                /\ new[n] = VersionLink(newVersion, start.pkgVersion)
                /\ \A j \in 1..Len(new) : (new[j].k = "vlink" /\ j # n) => n < j

\* The lines of a text that are not blank.
NonBlank(ls) == SelectSeq(ls, LAMBDA l : l.k # "blank")

\* What the pending section holds, links apart: the lines from the first
\* pending-marker header to the next section header that are neither blank
\* nor links.
PendingContent(doc) ==
    LET u == CHOOSE i \in 1..Len(doc) :
                 doc[i].k = "unrel" /\ \A j \in 1..(i - 1) : doc[j].k # "unrel"
        ends == {j \in (u + 1)..Len(doc) : doc[j].k \in {"unrel", "ver"}}
        e == IF ends = {} THEN Len(doc) + 1
             ELSE CHOOSE j \in ends : \A h \in ends : j <= h
    IN SelectSeq(SubSeq(doc, u + 1, e - 1),
                 LAMBDA l : l.k \notin {"blank", "ulink", "vlink"})

\* C17: after a completed release, to a greater version, of a changelog with
\* pending entries and no released section (the section of the new version
\* is the last one), the notes of the tag and those of the published release
\* hold the lines the pending section held, and no other line.
C17_NotesAreSectionContent ==
    ( /\ ReleaseCompleted
      /\ StrictlyGreater(newVersion, start.pkgVersion)
      /\ start.changelog.exists
      /\ OneMarkerFirst(start.changelog.lines)
      /\ PendingHasSubsection(start.changelog.lines)
      /\ \A j \in 1..Len(start.changelog.lines) : start.changelog.lines[j].k # "ver" )
    => /\ NonBlank(result.tagNotes) = PendingContent(start.changelog.lines)
       /\ result.published
          => NonBlank(result.releaseNotes) = PendingContent(start.changelog.lines)

\* C18: from the version package.json holds, RELEASE_TYPE (with prompts
\* skipped) and the menu choices 1, 2, 3 give (major+1).0.0, major.(minor+1).0
\* and major.minor.(patch+1); a CUSTOM_VERSION is taken as it is whatever
\* RELEASE_TYPE, the mode and the replies are; and the version of a release
\* under way is one of these.
C18_BumpAndExplicitVersion ==
    LET M == pkgVersion[1]
        m == pkgVersion[2]
        p == pkgVersion[3]
        Got(custom, type, skip, choice, typed) ==
            GetNewVersion(pkgVersion, custom, type, skip, choice, typed)
        Is(v) == [version |-> v, error |-> ""]
    IN /\ \A choice \in MenuChoices \cup {""}, typed \in CustomVersions(pkgVersion) :
             /\ Got(<<>>, "major", TRUE, choice, typed) = Is(<<M + 1, 0, 0>>)
             /\ Got(<<>>, "minor", TRUE, choice, typed) = Is(<<M, m + 1, 0>>)
             /\ Got(<<>>, "patch", TRUE, choice, typed) = Is(<<M, m, p + 1>>)
       /\ \A type \in ReleaseTypes, typed \in CustomVersions(pkgVersion) :
             /\ Got(<<>>, type, FALSE, "1", typed) = Is(<<M + 1, 0, 0>>)
             /\ Got(<<>>, type, FALSE, "2", typed) = Is(<<M, m + 1, 0>>)
             /\ Got(<<>>, type, FALSE, "3", typed) = Is(<<M, m, p + 1>>)
       /\ \A custom \in CustomVersions(pkgVersion) \ {<<>>}, type \in ReleaseTypes,
             skip \in BOOLEAN, choice \in MenuChoices \cup {""},
             typed \in CustomVersions(pkgVersion) :
             Got(custom, type, skip, choice, typed) = Is(custom)
       /\ (args.op = "release" /\ pc = "rel_check")
          => LET S == start.pkgVersion
             IN newVersion \in
                  {<<S[1] + 1, 0, 0>>, <<S[1], S[2] + 1, 0>>, <<S[1], S[2], S[3] + 1>>}
                  \cup CustomVersions(S)

\* C18, its case: a second release, with prompts skipped, took the major
\* bump of a version whose minor part is not 0.
C18_Witness ==
    /\ args.op = "release"
    /\ args.skip
    /\ pc = "rel_check"
    /\ start.pkgVersion[2] > 0
    /\ newVersion = <<start.pkgVersion[1] + 1, 0, 0>>

\* A run of the creator wrote its file.
Created == args.op = "create" /\ result.written # <<>>

\* The files of a directory that carry the issue, by their name or by their
\* metadata.
FilesOfIssue(files, n) ==
    {f \in files : f.name = ToString(n) \o ".md" \/ f.issue = <<n>>}

\* C14: the file the creator has written, read by parseFrontmatter, gives
\* the type, the issue, the pr, the title and the body (the lines as
\* bullets) the creator wrote it from.
C14_WriteThenParse ==
    Created
    => LET t == result.written[1]
           f == CHOOSE g \in changeset.files : g.name = ToString(t.issue) \o ".md"
           parsed == parseFrontmatter(f)
       IN /\ \E g \in changeset.files : g.name = ToString(t.issue) \o ".md"
          /\ ~ParseThrows(f)
          /\ parsed.type = <<t.type>>
          /\ parsed.issue = <<t.issue>>
          /\ parsed.title = <<t.title>>
          /\ parsed.body = [i \in 1..Len(t.lines) |-> "- " \o t.lines[i]]
          /\ "pr" \in DOMAIN parsed
          /\ parsed.pr = t.pr

\* C19: in every state of the creator's runs each file of the directory is
\* named <issue>.md after the issue its metadata hold, no two files hold
\* the same issue, and a run that wrote left one file for its issue, with
\* what it wrote, and every file of the other issues as it was.
C19_OneFilePerIssue ==
    /\ \A f \in changeset.files :
          f.issue # <<>> /\ f.issue[1] > 0 /\ f.name = ToString(f.issue[1]) \o ".md"
    /\ \A f, g \in changeset.files : f.issue = g.issue => f = g
    /\ Created
       => LET t == result.written[1]
          IN /\ \E f \in changeset.files :
                   /\ FilesOfIssue(changeset.files, t.issue) = {f}
                   /\ f.type = <<t.type>>
                   /\ f.pr = <<t.pr>>
                   /\ f.body = <<"">> \o [i \in 1..Len(t.lines) |-> "- " \o t.lines[i]]
             /\ changeset.files \ FilesOfIssue(changeset.files, t.issue)
                  = start.changeset.files \ FilesOfIssue(start.changeset.files, t.issue)

\* C19, its case: a create for an issue that had a file put other contents in
\* its place, and the directory holds one file as before.
C19_Witness ==
    /\ Created
    /\ \E f \in start.changeset.files :
          /\ f.issue = <<result.written[1].issue>>
          /\ f \notin changeset.files
    /\ Cardinality(changeset.files) = 1
    /\ Cardinality(start.changeset.files) = 1

\* The file of the issue the run was given, as the directory held it when the
\* run began.
HadFile ==
    /\ result.issue # <<>>
    /\ \E f \in start.changeset.files : f.name = ToString(result.issue[1]) \o ".md"

\* The directory holds, under the name of the issue, the file the run wrote.
HoldsWritten ==
    LET t == result.written[1]
    IN \E f \in changeset.files :
          /\ f.name = ToString(t.issue) \o ".md"
          /\ f = generateFragmentContent(t.type, t.issue, t.pr, t.title, t.lines)

\* C20: an interactive create for an issue that has a file asks for the
\* overwrite right after the issue and before any other field; unless the
\* answer is y, in either case, it asks nothing more, writes nothing, ends
\* normally and leaves the directory as it was, and when the answer is y and
\* it writes, the file holds the new contents.  It asks for no overwrite when
\* the issue has no file.  A non-interactive create asks nothing, and where
\* it ends normally the file of the issue holds the new contents.
C20_OverwriteAfterConfirmation ==
    /\ (args.op = "create" /\ ~args.skip /\ HadFile)
       => /\ Len(result.prompts) >= 2
          /\ result.prompts[1] = "issue"
          /\ result.prompts[2] = "overwrite"
          /\ ToLower(result.answer) # "y"
             => /\ result.prompts = <<"issue", "overwrite">>
                /\ result.written = <<>>
                /\ result.exit = 0
                /\ changeset = start.changeset
          /\ result.written # <<>>
             => ToLower(result.answer) = "y" /\ HoldsWritten
    /\ (args.op = "create" /\ ~args.skip /\ ~HadFile)
       => \A i \in 1..Len(result.prompts) : result.prompts[i] # "overwrite"
    /\ (args.op = "create" /\ args.skip)
       => /\ result.prompts = <<>>
          /\ result.exit = 0 => result.written # <<>> /\ HoldsWritten

\* C20, its case: an interactive create for an issue that has a file was
\* answered n at the overwrite prompt, and the file is as it was.
C20_Witness ==
    /\ args.op = "create"
    /\ ~args.skip
    /\ HadFile
    /\ result.answer = "n"
    /\ result.prompts = <<"issue", "overwrite">>
    /\ result.written = <<>>
    /\ changeset = start.changeset

\* C20 as stated: an interactive create for an issue that has a file writes
\* nothing and leaves the directory as it was unless the answer is y.
C20_OnlyLowercaseYOverwrites ==
    (args.op = "create" /\ ~args.skip /\ HadFile /\ result.answer # "y")
    => result.written = <<>> /\ changeset = start.changeset

\* C20, the non-interactive case: a create with --issue and --type for an
\* issue that had a file with other contents replaced it, with no prompt.
C20_WitnessNonInteractive ==
    /\ args.op = "create"
    /\ args.skip
    /\ HadFile
    /\ result.prompts = <<>>
    /\ result.written # <<>>
    /\ changeset # start.changeset

\* An interactive run that was answered no at the overwrite question.
Cancelled ==
    /\ result.prompts = <<"issue", "overwrite">>
    /\ result.exit = 0
    /\ result.written = <<>>

\* C21: a create that ends with an error wrote nothing and left the directory's
\* files as they were; a create that ends normally and was not cancelled wrote
\* one file, the only file of the directory that differs from before; and what
\* is written has a type of the taxonomy, a positive issue, a pr that is a
\* number not below zero, a title that is not empty and one line or more.
C21_CreateValidates ==
    (args.op = "create" /\ pc = "idle")
    => /\ result.exit # 0
          => result.written = <<>> /\ changeset.files = start.changeset.files
       /\ (result.exit = 0 /\ ~Cancelled) => Created
       /\ Created
          => LET t == result.written[1]
                 f == generateFragmentContent(t.type, t.issue, t.pr, t.title, t.lines)
             IN /\ result.exit = 0
                /\ f \in changeset.files
                /\ changeset.files \ {f}
                     = {g \in start.changeset.files : g.name # f.name}
                /\ \E i \in 1..Len(ChangeTypes) : ChangeTypes[i] = t.type
                /\ t.issue > 0
                /\ t.pr # <<>>
                /\ t.pr[1] >= 0
                /\ TrimText(t.title) # ""
                /\ t.lines # <<>>

\* The pending section of the document holds a line that is not blank.
PendingNonEmpty(doc) == \E j \in PendingRange(doc) : doc[j].k # "blank"

\* C22: an aggregate run, dry or not, that read a fragment and went past
\* updateChangelog on a changelog whose pending section holds a line that is
\* not blank has given the warning of the content that is there, and has not
\* ended with an error.
C22_PendingContentWarned ==
    ( /\ AggregateRan
      /\ pc # "agg_update"
      /\ start.changelog.exists
      /\ PendingNonEmpty(start.changelog.lines) )
    => /\ result.contentWarning
       /\ result.exit \in {-1, 0}

\* The place of a header that is not of the priority table among such
\* headers, by the name of its type.
NameOrder(h) ==
    CASE h = "Docs" -> 1
      [] h = "Perf" -> 2
      [] OTHER -> 0

\* C23: in the rendered section no header of a type outside the priority
\* table stands before a header of the table, and the headers of types
\* outside the table stand in the order of their type names, whatever the
\* order in which the files were listed.
C23_UnknownTypesLastByName ==
    pc = "agg_update"
    => \A i, j \in 1..Len(newSection) :
          (i < j /\ newSection[i].k = "sub" /\ newSection[j].k = "sub")
          => /\ HeaderOrder(newSection[i].s) = 999
                => HeaderOrder(newSection[j].s) = 999
             /\ ( /\ HeaderOrder(newSection[i].s) = 999
                  /\ HeaderOrder(newSection[j].s) = 999 )
                => NameOrder(newSection[i].s) < NameOrder(newSection[j].s)

\* The header of the subsection the line e of the section stands in.
SubsectionOf(section, e) ==
    LET hs == {h \in 1..e : section[h].k = "sub"}
    IN IF hs = {} THEN "" ELSE section[CHOOSE h \in hs : \A g \in hs : g <= h].s

\* The type is one of the six of the taxonomy.
InTaxonomy(t) == \E i \in 1..Len(ChangeTypes) : ChangeTypes[i] = t

\* C24: the rendered section holds, for every fragment read whose type is
\* unset or outside the taxonomy, its entry in the Changed subsection.
C24_UnknownTypeUnderChanged ==
    pc = "agg_update"
    => \A i \in 1..Len(fragments) :
          (fragments[i].type = <<>> \/ ~InTaxonomy(fragments[i].type[1]))
          => \E e \in 1..Len(newSection) :
                /\ newSection[e] = EntryLine(TitleText(fragments[i]), fragments[i].issue)
                /\ SubsectionOf(newSection, e) = "Changed"

\* C25: every start of a release with prompts skipped, no CUSTOM_VERSION and
\* a RELEASE_TYPE that is missing or is none of major, minor and patch is
\* the whole run: it ends at once with exit status 1 and the error of the
\* release type, and package.json and the changelog are as before.
C25_BadBumpTypeAborts ==
    [][ \A type \in ReleaseTypes \ {"major", "minor", "patch"}, force \in BOOLEAN :
          RelStart(<<>>, type, TRUE, force, "", <<>>)
          => /\ pc' = "idle"
             /\ result'.exit = 1
             /\ result'.error = IF type = "" THEN "NoReleaseType" ELSE "InvalidReleaseType"
             /\ pkgVersion' = pkgVersion
             /\ changelog' = changelog ]_vars

\* C25, its case: a release with prompts skipped ended on its release type,
\* with package.json and the changelog as it found them.
C25_Witness ==
    /\ args.op = "release"
    /\ args.skip
    /\ pc = "idle"
    /\ result.exit = 1
    /\ result.error = "InvalidReleaseType"
    /\ pkgVersion = start.pkgVersion
    /\ changelog = start.changelog

\* C26: an aggregate run that is no dry run, ended, on a changelog with the
\* pending marker and a directory that holds 1.md in the format the skill
\* documents (a "### Added" heading and bullet lines, no metadata block) has
\* read the file as a fragment and put its bullet line into the changelog.
C26_DocumentedFormatAggregated ==
    ( /\ args.op = "aggregate"
      /\ ~args.dryRun
      /\ pc = "idle"
      /\ start.changelog.exists
      /\ MarkerTerminated(start.changelog)
      /\ FNoDelim \in start.changeset.files )
    => /\ result.exit = 0
       /\ FNoDelim.name \in FragmentNames
       /\ \E j \in 1..Len(changelog.lines) : changelog.lines[j].s = FNoDelim.body[2]

\* The files the run has deleted so far.
Deleted == start.changeset.files \ changeset.files

\* C27: in an aggregate run no file is added to the directory and none is
\* gone before updateChangelog has returned; a file that is gone was read as
\* a fragment in a run that is no dry run, after the changelog was written,
\* its entry is in the section rendered and in the changelog, and it is no
\* file that failed to parse, no reserved file and no file without .md.
C27_DeleteOnlyMergedFiles ==
    args.op = "aggregate"
    => /\ changeset.files \subseteq start.changeset.files
       /\ pc = "agg_update" => Deleted = {}
       /\ \A f \in Deleted :
             /\ ~args.dryRun
             /\ pc = "idle"
             /\ changelog.exists
             /\ changelog # start.changelog
             /\ f.delim
             /\ f.name \notin SpecialNames
             /\ \E i \in 1..Len(fragments) :
                   /\ fragments[i].filename = f.name
                   /\ \E e \in 1..Len(newSection) :
                         newSection[e]
                           = EntryLine(TitleText(fragments[i]), fragments[i].issue)
                   /\ \E j \in 1..Len(changelog.lines) :
                         changelog.lines[j]
                           = EntryLine(TitleText(fragments[i]), fragments[i].issue)

\* C27, its case: a run has deleted the file of a fragment it merged and has
\* left a file of the directory that it could not parse or did not read.
C27_Witness ==
    /\ args.op = "aggregate"
    /\ pc = "idle"
    /\ Deleted # {}
    /\ \E g \in changeset.files : g.name \in SpecialNames \/ ~g.delim
    /\ changelog # start.changelog

\* C28: whatever runs were made, no entry line stands twice in the
\* changelog: the entry of a fragment has been inserted at most once.
C28_EntryInsertedOnce ==
    \A i, j \in 1..Len(changelog.lines) :
        (i < j /\ changelog.lines[i].k = "entry")
        => changelog.lines[i] # changelog.lines[j]

\* The lines of a body that are not empty, as the section shows them.
ShownBody(body) ==
    LET kept == SelectSeq(body, LAMBDA l : l # "")
    IN [i \in 1..Len(kept) |-> BodyLine(kept[i])]

\* The places of the entry lines of a section.
EntryPlaces(section) == {e \in 1..Len(section) : section[e].k = "entry"}

\* C29: an aggregate run that read fragments renders them (it does not end
\* in the grouping); the section rendered has as many entries as fragments
\* were read; every fragment has its entry line, followed by the lines of
\* its body that are not empty and then by the end of the entry, under the
\* header of its type; no two headers are the same; and every header is
\* followed by an empty line and an entry.
C29_RenderPartitions ==
    (args.op = "aggregate" /\ fragments # <<>>)
    => /\ newSection # <<>>
       /\ Cardinality(EntryPlaces(newSection)) = Len(fragments)
       /\ \A i \in 1..Len(fragments) :
             \E e \in EntryPlaces(newSection) :
                LET f == fragments[i]
                    b == ShownBody(f.body)
                IN /\ newSection[e] = EntryLine(TitleText(f), f.issue)
                   /\ e + Len(b) <= Len(newSection)
                   /\ SubSeq(newSection, e + 1, e + Len(b)) = b
                   /\ e + Len(b) < Len(newSection)
                      => newSection[e + Len(b) + 1].k = "blank"
                   /\ SubsectionOf(newSection, e)
                        = TypeHeader(IF f.type = <<>> THEN "changed" ELSE f.type[1])
       /\ \A g, h \in 1..Len(newSection) :
             (newSection[g].k = "sub" /\ newSection[h].k = "sub" /\ g # h)
             => newSection[g].s # newSection[h].s
       /\ \A h \in 1..Len(newSection) :
             newSection[h].k = "sub"
             => /\ h + 2 <= Len(newSection)
                /\ newSection[h + 1].k = "blank"
                /\ newSection[h + 2].k = "entry"

\* The places of the released-section headers of a document.
VersionHeaders(doc) == {h \in 1..Len(doc) : doc[h].k = "ver"}

\* C30: once a release has moved the rewritten text over CHANGELOG.md, the
\* changelog has a released-section header, the first of them is that of the
\* version package.json holds, and no other header is of that version.
C30_MetadataMatchesNewestHeader ==
    (args.op = "release" /\ (pc = "rel_tag" \/ (pc = "idle" /\ result.exit = 0)))
    => LET doc == changelog.lines
           hs == VersionHeaders(doc)
       IN /\ hs # {}
          /\ doc[CHOOSE h \in hs : \A g \in hs : h <= g].v = pkgVersion
          /\ Cardinality({h \in hs : doc[h].v = pkgVersion}) = 1

====
